---------------------------- MODULE Spec2Model ----------------------------
(***************************************************************************)
(* DeepCurrent (src/DeepCurrent.py): the analysis pipeline                 *)
(* (process_contract), the diagram validator (is_valid_mermaid), the model *)
(* gateway (call_llm), the repair workflow                                 *)
(* (check_and_regenerate_diagrams) and the queries on a report             *)
(* (query_report), as one state machine.                                   *)
(*                                                                         *)
(* Text is modelled at character level: a Python str is a sequence of      *)
(* one-character strings, so strip, startswith and "in" are computed as    *)
(* Python computes them.  A file is a record [ok, data]: ok = FALSE is a   *)
(* file that exists but whose open()/read() raises.  Writes into a session *)
(* folder are taken to succeed (save_file's except branch is not taken).   *)
(* sha256 is treated as injective, so a contract id is the hashed string.  *)
(***************************************************************************)
EXTENDS Naturals, Sequences, FiniteSets, TLC

VARIABLES
    inputs,            \* the contracts directory: file path -> file
    clock,             \* datetime.now(), in whole seconds
    disk,              \* session folder (its timestamp) -> (file name -> file)
    db,                \* table contracts: id -> row
    pc,                \* where the program is
    runs,              \* "Analyse a new directory" invocations so far
    repairs,           \* check_and_regenerate_diagrams invocations so far
    tampers,           \* changes made to persisted files from outside the program
    output_folder,     \* main: output_folder / process_contract: output_dir
    contract_files,    \* main: the contract files still to process
    filepath,          \* process_contract: filepath
    content,           \* process_contract: content
    functions_report,  \* process_contract: functions_report
    journey_report,    \* process_contract: journey_report
    journey_diagram,   \* process_contract: journey_diagram
    call_diagram,      \* process_contract: call_diagram
    session_folder,    \* contract_menu_in_session: session_folder
    contract_base,     \* show_contract_menu: contract_base
    reply,             \* the last Prompt.ask answer in repair or in a query
    calls,             \* the gateway calls of the operation under way, in order
    console,           \* the notices the operation under way has printed
    finished,          \* the last process_contract call that returned
    probe,             \* the input a function is tried on on its own
    outcome            \* and what the function returned

vars == <<inputs, clock, disk, db, pc, runs, repairs, tampers, output_folder,
          contract_files, filepath, content, functions_report, journey_report,
          journey_diagram, call_diagram, session_folder, contract_base, reply,
          calls, console, finished, probe, outcome>>

----------------------------------------------------------------------------
(* Bounds of the model. *)

\* "Analyse a new directory" invocations per behaviour.
MaxRuns == 1

\* check_and_regenerate_diagrams invocations per behaviour.
MaxRepairs == 1

\* Outside changes to persisted files per behaviour (SpecEnv only).
MaxTampers == 1

\* Length of the payloads the validator is tried on, in chunks.
MaxChunks == 3

\* Directories analysed one after the other, and seconds of the clock, where
\* sessions are compared.
MaxSessions == 2
MaxClock == 2

----------------------------------------------------------------------------
(* Python str operations. *)

\* str.strip() with no argument removes these (the ASCII ones that TLA+ can write).
Whitespace == {" ", "\n", "\t", "\r", "\f"}

RECURSIVE lstrip(_)
lstrip(s) ==
    IF s # <<>> /\ Head(s) \in Whitespace THEN lstrip(Tail(s)) ELSE s

RECURSIVE rstrip(_)
rstrip(s) ==
    IF s # <<>> /\ s[Len(s)] \in Whitespace THEN rstrip(SubSeq(s, 1, Len(s) - 1)) ELSE s

strip(s) == rstrip(lstrip(s))

startswith(s, prefix) ==
    Len(s) >= Len(prefix) /\ SubSeq(s, 1, Len(prefix)) = prefix

endswith(s, suffix) ==
    Len(s) >= Len(suffix) /\ SubSeq(s, Len(s) - Len(suffix) + 1, Len(s)) = suffix

\* needle in s
contains(s, needle) ==
    \E i \in 0..Len(s) : i + Len(needle) <= Len(s) /\ SubSeq(s, i + 1, i + Len(needle)) = needle

\* Python truthiness of a str
truthy(s) == s # <<>>

----------------------------------------------------------------------------
(* String constants of the program and the texts the model is run on. *)

FLOWCHART_TD ==
    <<"f", "l", "o", "w", "c", "h", "a", "r", "t", " ", "T", "D">>

SEQUENCE_DIAGRAM ==
    <<"s", "e", "q", "u", "e", "n", "c", "e", "D", "i", "a", "g", "r", "a", "m">>

DEFAULT_MARKER ==
    <<"D", "e", "f", "a", "u", "l", "t", " ", "D", "i", "a", "g", "r", "a", "m">>

\* A placeholder for the journey diagram without the marker.
DEFAULT_JOURNEY_DIAGRAM_UNMARKED ==
    <<"f", "l", "o", "w", "c", "h", "a", "r", "t", " ", "T", "D", "\n", " ", " ", " ", " ",
      "A", "[", "S", "t", "a", "r", "t", "]", "\n">>

DEFAULT_JOURNEY_DIAGRAM ==
    <<"f", "l", "o", "w", "c", "h", "a", "r", "t", " ", "T", "D", "\n", " ", " ", " ", " ",
      "A", "[", "D", "e", "f", "a", "u", "l", "t", " ", "D", "i", "a", "g", "r", "a", "m", "]",
      "\n">>

DEFAULT_CALL_DIAGRAM ==
    <<"f", "l", "o", "w", "c", "h", "a", "r", "t", " ", "T", "D", "\n", " ", " ", " ", " ",
      "A", "[", "D", "e", "f", "a", "u", "l", "t", " ", "D", "i", "a", "g", "r", "a", "m", "]",
      "\n">>

NO_FUNCTIONS_REPORT ==
    <<"[", "N", "o", " ", "f", "u", "n", "c", "t", "i", "o", "n", "s", " ", "r", "e", "p", "o",
      "r", "t", " ", "p", "r", "o", "d", "u", "c", "e", "d", "]">>

NO_JOURNEY_REPORT ==
    <<"[", "N", "o", " ", "j", "o", "u", "r", "n", "e", "y", " ", "r", "e", "p", "o", "r", "t",
      " ", "p", "r", "o", "d", "u", "c", "e", "d", "]">>

ORIGINAL_SUFFIX ==
    <<"_", "o", "r", "i", "g", "i", "n", "a", "l", ".", "s", "o", "l">>

FUNCTIONS_REPORT_SUFFIX ==
    <<"_", "f", "u", "n", "c", "t", "i", "o", "n", "s", "_", "r", "e", "p", "o", "r", "t", ".",
      "m", "d">>

PRELIMINARY_REPORT_SUFFIX ==
    <<"_", "p", "r", "e", "l", "i", "m", "i", "n", "a", "r", "y", "_", "r", "e", "p", "o", "r",
      "t", ".", "m", "d">>

JOURNEY_REPORT_SUFFIX ==
    <<"_", "j", "o", "u", "r", "n", "e", "y", "_", "r", "e", "p", "o", "r", "t", ".", "m", "d">>

JOURNEY_DIAGRAM_SUFFIX ==
    <<"_", "j", "o", "u", "r", "n", "e", "y", "_", "d", "i", "a", "g", "r", "a", "m", ".", "m",
      "d">>

CALL_DIAGRAM_SUFFIX ==
    <<"_", "c", "a", "l", "l", "_", "d", "i", "a", "g", "r", "a", "m", ".", "m", "d">>

ANALYSIS_REPORT_SUFFIX ==
    <<"_", "a", "n", "a", "l", "y", "s", "i", "s", "_", "r", "e", "p", "o", "r", "t", ".", "m",
      "d">>

PRELIMINARY_TITLE ==
    <<"#", " ", "P", "r", "e", "l", "i", "m", "i", "n", "a", "r", "y", " ", "A", "n", "a", "l",
      "y", "s", "i", "s", " ", "R", "e", "p", "o", "r", "t", " ", "f", "o", "r", " ">>

FINAL_TITLE ==
    <<"#", " ", "F", "i", "n", "a", "l", " ", "A", "n", "a", "l", "y", "s", "i", "s", " ", "R",
      "e", "p", "o", "r", "t", " ", "f", "o", "r", " ">>

FUNCTIONS_HEADING ==
    <<"#", "#", " ", "F", "u", "n", "c", "t", "i", "o", "n", "s", " ", "R", "e", "p", "o", "r",
      "t", "\n", "\n">>

JOURNEY_HEADING ==
    <<"#", "#", " ", "J", "o", "u", "r", "n", "e", "y", " ", "R", "e", "p", "o", "r", "t",
      "\n", "\n">>

JOURNEY_DIAGRAM_HEADING ==
    <<"#", "#", " ", "U", "s", "e", "r", " ", "J", "o", "u", "r", "n", "e", "y", " ", "D", "i",
      "a", "g", "r", "a", "m", " ", "(", "M", "e", "r", "m", "a", "i", "d", ")", "\n", "\n">>

CALL_DIAGRAM_HEADING ==
    <<"#", "#", " ", "F", "u", "n", "c", "t", "i", "o", "n", " ", "C", "a", "l", "l", " ", "D",
      "i", "a", "g", "r", "a", "m", " ", "(", "M", "e", "r", "m", "a", "i", "d", ")", "\n", "\n">>

PathA ==
    <<"d", "/", "A", ".", "s", "o", "l">>

PathB ==
    <<"d", "/", "B", ".", "s", "o", "l">>

SourceA ==
    <<"c", "o", "n", "t", "r", "a", "c", "t", " ", "A", " ", "{", "}">>

BlankSource ==
    <<" ", "\n">>

ProseText ==
    <<"f", "(", ")", " ", "i", "s", " ", "p", "u", "b", "l", "i", "c">>

DiagramBody ==
    <<" ", "f", "l", "o", "w", "c", "h", "a", "r", "t", " ", "T", "D", "\n", " ", "A", "-",
      "-", ">", "B", "\n">>

NO_ORIGINAL_CODE ==
    <<"[", "O", "r", "i", "g", "i", "n", "a", "l", " ", "c", "o", "d", "e", " ", "n", "o", "t",
      " ", "a", "v", "a", "i", "l", "a", "b", "l", "e", "]">>

NO_JOURNEY_DIAGRAM ==
    <<"[", "J", "o", "u", "r", "n", "e", "y", " ", "d", "i", "a", "g", "r", "a", "m", " ", "n",
      "o", "t", " ", "a", "v", "a", "i", "l", "a", "b", "l", "e", "]">>

NO_CALL_DIAGRAM ==
    <<"[", "C", "a", "l", "l", " ", "d", "i", "a", "g", "r", "a", "m", " ", "n", "o", "t", " ",
      "a", "v", "a", "i", "l", "a", "b", "l", "e", "]">>

QuestionText ==
    <<"w", "h", "o", " ", "m", "a", "y", " ", "c", "a", "l", "l", " ", "f", "?">>

PathC ==
    <<"d", "/", "A", "_", "a", "n", "a", "l", "y", "s", "i", "s", "_", "r", "e", "p", "o", "r",
      "t", ".", "m", "d", ".", "s", "o", "l">>

PathN ==
    <<"d", "/", "n", "o", "t", "e", "s", ".", "t", "x", "t">>

EditedSource ==
    <<"c", "o", "n", "t", "r", "a", "c", "t", " ", "A", " ", "{", " ", "f", "u", "n", "c", "t",
      "i", "o", "n", " ", "g", "(", ")", " ", "{", "}", " ", "}">>

DOT_SOL ==
    <<".", "s", "o", "l">>

----------------------------------------------------------------------------
(* is_valid_mermaid *)

\* is_valid_mermaid without the test for the placeholder's marker.
is_valid_mermaid_root_only(diagram_text) ==
    LET stripped == strip(diagram_text)
    IN  startswith(stripped, FLOWCHART_TD) \/ startswith(stripped, SEQUENCE_DIAGRAM)

is_valid_mermaid(diagram_text) ==
    LET stripped == strip(diagram_text)
    IN  /\ (startswith(stripped, FLOWCHART_TD) \/ startswith(stripped, SEQUENCE_DIAGRAM))
        /\ ~contains(stripped, DEFAULT_MARKER)

----------------------------------------------------------------------------
(* The model gateway, call_llm.                                            *)
(* What requests.post does is the environment's choice: it raises, or it   *)
(* returns a response with a status code and a body.  A body is a JSON     *)
(* value, tagged by its type, or not JSON at all.                          *)

NotJson == [t |-> "invalid"]
JNull == [t |-> "null"]
JNumber == [t |-> "number"]
JBool == [t |-> "bool"]
JString(s) == [t |-> "string", s |-> s]
JList(items) == [t |-> "list", items |-> items]
JDict(fields) == [t |-> "dict", fields |-> fields]
NoFields == [k \in {} |-> JNull]

TransportError == [kind |-> "exception", status_code |-> 0, body |-> NotJson]
Http(status_code, body) == [kind |-> "http", status_code |-> status_code, body |-> body]

\* A completion body as the endpoint documents it: {"choices": [{"text": s}]}.
Completion(s) ==
    JDict([k \in {"choices"} |-> JList(<<JDict([j \in {"text"} |-> JString(s)])>>)])

HTTP_OK == 200

\* The result of evaluating an expression: a value, or an exception raised.
Value(v) == [exc |-> FALSE, v |-> v]
Raised == [exc |-> TRUE, v |-> JNull]

\* obj.get(key, default): AttributeError unless obj is a dict.
py_get(obj, key, default) ==
    IF obj.t = "dict"
    THEN Value(IF key \in DOMAIN obj.fields THEN obj.fields[key] ELSE default)
    ELSE Raised

\* obj[0]: IndexError on an empty list or str, KeyError on a dict (a JSON
\* object's keys are strings), TypeError on a number or null.
py_first(obj) ==
    CASE obj.t = "list" -> IF obj.items # <<>> THEN Value(obj.items[1]) ELSE Raised
      [] obj.t = "string" -> IF obj.s # <<>> THEN Value(JString(<<obj.s[1]>>)) ELSE Raised
      [] OTHER -> Raised

\* obj.strip(): AttributeError unless obj is a str.
py_strip(obj) ==
    IF obj.t = "string" THEN Value(JString(strip(obj.s))) ELSE Raised

\* Lines 126-132, the body of the try statement: the str returned, or Raised.
call_llm_try(response) ==
    IF response.kind = "exception" THEN Raised
    ELSE IF response.status_code = HTTP_OK
    THEN IF response.body.t = "invalid" THEN Raised
         ELSE LET choices == py_get(response.body, "choices", JList(<<JDict(NoFields)>>))
                  first   == IF choices.exc THEN Raised ELSE py_first(choices.v)
                  field   == IF first.exc THEN Raised ELSE py_get(first.v, "text", JString(<<>>))
              IN  IF field.exc THEN Raised ELSE py_strip(field.v)
    ELSE Value(JString(<<>>))

\* The same with the except clause around requests.post alone.
call_llm_except_post_only(prompt, model, response) ==
    LET r == call_llm_try(response)
    IN  IF response.kind = "exception" THEN [raised |-> FALSE, value |-> <<>>]
        ELSE IF r.exc THEN [raised |-> TRUE, value |-> <<>>]
        ELSE [raised |-> FALSE, value |-> r.v.s]

\* call_llm(prompt, model): [raised, value]; raised says an exception left the
\* function, value is the str returned otherwise.
call_llm(prompt, model, response) ==
    LET r == call_llm_try(response)
    IN  IF r.exc THEN [raised |-> FALSE, value |-> <<>>]
        ELSE [raised |-> FALSE, value |-> r.v.s]

ANALYSIS_MODEL == "ANALYSIS_MODEL"
QUERY_MODEL == "QUERY_MODEL"

\* What the endpoint answers in the pipeline and in repair: a failure of each
\* kind, a body without the text, a prose answer, a diagram answer.
GatewayResponses ==
    { TransportError,
      Http(500, NotJson),
      Http(HTTP_OK, JDict([k \in {"choices"} |-> JList(<<>>)])),
      Http(HTTP_OK, Completion(ProseText)),
      Http(HTTP_OK, Completion(DiagramBody)) }

\* Whether a response is a transport error or a non-success status.
GatewayFailed(response) ==
    response.kind = "exception" \/ response.status_code # HTTP_OK

----------------------------------------------------------------------------
(* Phase generators.  A prompt is [lead, label, context]: the instruction  *)
(* it opens with, the heading over the embedded context, and the context.  *)

Prompt(lead, label, context) == [lead |-> lead, label |-> label, context |-> context]

CallRecord(generator, prompt, model, response) ==
    [generator |-> generator, prompt |-> prompt, model |-> model,
     failed |-> GatewayFailed(response),
     output |-> call_llm(prompt, model, response).value]

functions_report_prompt(contract_content) ==
    Prompt("Phase 1", "Smart Contract Code:", contract_content)

generate_functions_report(contract_content, response) ==
    LET output == call_llm(functions_report_prompt(contract_content), ANALYSIS_MODEL, response).value
    IN  IF truthy(output) THEN output ELSE NO_FUNCTIONS_REPORT

journey_report_prompt(contract_content) ==
    Prompt("Phase 2", "Smart Contract Code:", contract_content)

\* generate_journey_report returning the gateway's output as it is.
generate_journey_report_raw(contract_content, response) ==
    call_llm(journey_report_prompt(contract_content), ANALYSIS_MODEL, response).value

generate_journey_report(contract_content, response) ==
    LET output == call_llm(journey_report_prompt(contract_content), ANALYSIS_MODEL, response).value
    IN  IF truthy(output) THEN output ELSE NO_JOURNEY_REPORT

journey_diagram_prompt(report) ==
    Prompt("Phase 3a", "User Journey Description:", report)

\* generate_journey_diagram giving the placeholder whatever the gateway
\* answered.
generate_journey_diagram_default(report, response) == DEFAULT_JOURNEY_DIAGRAM

generate_journey_diagram(report, response) ==
    LET output == call_llm(journey_diagram_prompt(report), ANALYSIS_MODEL, response).value
    IN  IF ~is_valid_mermaid(output) THEN DEFAULT_JOURNEY_DIAGRAM ELSE output

call_diagram_prompt(report) ==
    Prompt("Phase 3b", "Functions Report:", report)

\* generate_call_diagram without the validator.
generate_call_diagram_unvalidated(report, response) ==
    call_llm(call_diagram_prompt(report), ANALYSIS_MODEL, response).value

generate_call_diagram(report, response) ==
    LET output == call_llm(call_diagram_prompt(report), ANALYSIS_MODEL, response).value
    IN  IF ~is_valid_mermaid(output) THEN DEFAULT_CALL_DIAGRAM ELSE output

regenerate_journey_prompt(contract_content) ==
    Prompt("user journey", "Smart Contract Code:", contract_content)

regenerate_journey_diagram_from_contract(contract_content, response) ==
    call_llm(regenerate_journey_prompt(contract_content), ANALYSIS_MODEL, response).value

regenerate_call_prompt(contract_content) ==
    Prompt("function call graph", "Smart Contract Code:", contract_content)

regenerate_call_diagram_from_contract(contract_content, response) ==
    call_llm(regenerate_call_prompt(contract_content), ANALYSIS_MODEL, response).value

----------------------------------------------------------------------------
(* Files, paths and persistence. *)

File(data) == [ok |-> TRUE, data |-> data]
Unreadable == [ok |-> FALSE, data |-> <<>>]
NoFiles == [name \in {} |-> Unreadable]
NoRows == [id \in {} |-> <<>>]

\* open(path).read(): the text, or an exception (exc) when the file is missing
\* or cannot be read.
read_file(files, name) ==
    IF name \in DOMAIN files /\ files[name].ok
    THEN [exc |-> FALSE, data |-> files[name].data]
    ELSE [exc |-> TRUE, data |-> <<>>]

read_contract_file(path) ==
    LET r == read_file(inputs, path) IN IF r.exc THEN <<>> ELSE r.data

\* save_file(content, filename, output_dir), as a function of the disk.
save_file(dsk, data, filename, output_dir) ==
    [dsk EXCEPT ![output_dir] = (filename :> File(data)) @@ @]

\* os.makedirs(output_folder, exist_ok=True)
makedirs(dsk, folder) ==
    IF folder \in DOMAIN dsk THEN dsk ELSE (folder :> NoFiles) @@ dsk

\* The index of the last ch in s, 0 when there is none (str.rfind, 1-based).
RECURSIVE rfind(_, _)
rfind(s, ch) ==
    IF s = <<>> THEN 0
    ELSE IF s[Len(s)] = ch THEN Len(s)
    ELSE rfind(SubSeq(s, 1, Len(s) - 1), ch)

\* os.path.basename
basename(path) == SubSeq(path, rfind(path, "/") + 1, Len(path))

\* os.path.splitext(name)[0], name holding no separator: the text before the
\* last dot, unless only dots precede it.
splitext_root(name) ==
    LET dot == rfind(name, ".")
    IN  IF dot > 0 /\ \E i \in 1..(dot - 1) : name[i] # "."
        THEN SubSeq(name, 1, dot - 1)
        ELSE name

base_name_of(path) == splitext_root(basename(path))

\* A fingerprint of the content alone.
contract_id_of_content(path, data) == data

\* hashlib.sha256((filepath + content).encode()).hexdigest(), sha256 injective
contract_id_of(path, data) == path \o data

\* save_analysis keeping the row a fingerprint already has (INSERT OR IGNORE).
save_analysis_or_ignore(table, contract_id, filename, data, fr, jr, jd, cd, now) ==
    table @@ (contract_id :> [filename |-> filename, content |-> data,
                              functions_report |-> fr, journey_report |-> jr,
                              journey_diagram |-> jd, call_diagram |-> cd,
                              analysed_at |-> now])

\* save_analysis: INSERT OR REPLACE on the primary key id.
save_analysis(table, contract_id, filename, data, fr, jr, jd, cd, now) ==
    (contract_id :> [filename |-> filename, content |-> data,
                     functions_report |-> fr, journey_report |-> jr,
                     journey_diagram |-> jd, call_diagram |-> cd,
                     analysed_at |-> now]) @@ table

preliminary_report_of(base_name, fr) ==
    PRELIMINARY_TITLE \o base_name \o <<"\n", "\n">> \o FUNCTIONS_HEADING \o fr \o <<"\n">>

final_report_of(base_name, fr, jr, jd, cd) ==
    FINAL_TITLE \o base_name \o <<"\n", "\n">>
        \o FUNCTIONS_HEADING \o fr \o <<"\n", "\n">>
        \o JOURNEY_HEADING \o jr \o <<"\n", "\n">>
        \o JOURNEY_DIAGRAM_HEADING \o jd \o <<"\n", "\n">>
        \o CALL_DIAGRAM_HEADING \o cd \o <<"\n">>

\* The orders in which os.listdir may give the files of a set.
Orderings(S) ==
    {order \in [1..Cardinality(S) -> S] : \A x \in S : \E i \in DOMAIN order : order[i] = x}

\* main, lines 619-620: the .sol files of the directory.
SolFiles == {p \in DOMAIN inputs : endswith(basename(p), DOT_SOL)}

----------------------------------------------------------------------------
(* Initial state: the program at its main menu, no session, an empty       *)
(* table, and a contracts directory of two files: the first holds a        *)
(* contract or blank text, the second is empty or cannot be read.          *)

None == [none |-> TRUE]

Directories ==
    { (PathA :> a) @@ (PathB :> b) :
        a \in {File(SourceA), File(BlankSource)}, b \in {File(<<>>), Unreadable} }

InitProgram ==
    /\ clock = 1
    /\ disk = [s \in {} |-> NoFiles]
    /\ db = NoRows
    /\ pc = "main_menu"
    /\ runs = 0
    /\ repairs = 0
    /\ tampers = 0
    /\ output_folder = 0
    /\ contract_files = <<>>
    /\ filepath = <<>>
    /\ content = <<>>
    /\ functions_report = <<>>
    /\ journey_report = <<>>
    /\ journey_diagram = <<>>
    /\ call_diagram = <<>>
    /\ session_folder = 0
    /\ contract_base = <<>>
    /\ reply = None
    /\ calls = <<>>
    /\ console = {}
    /\ finished = None
    /\ outcome = None

Init ==
    /\ inputs \in Directories
    /\ probe = None
    /\ InitProgram

locals == <<filepath, content, functions_report, journey_report, journey_diagram, call_diagram>>
menus == <<session_folder, contract_base, reply>>
bench == <<probe, outcome>>
counters == <<runs, repairs, tampers>>

----------------------------------------------------------------------------
(* main: "Analyse a new directory", as often as the limit given allows.   *)

AnalyseDirectoryWithin(limit) ==
    /\ pc = "main_menu"
    /\ runs < limit
    /\ runs' = runs + 1
    /\ output_folder' = clock
    /\ disk' = makedirs(disk, clock)
    /\ \E order \in Orderings(SolFiles) : contract_files' = order
    /\ pc' = IF SolFiles = {} THEN "main_menu" ELSE "next_contract"
    /\ calls' = <<>>
    /\ console' = {}
    /\ finished' = None
    /\ UNCHANGED <<inputs, clock, db, repairs, tampers, locals, menus, bench>>

\* At most MaxRuns directories are analysed.
AnalyseDirectory == AnalyseDirectoryWithin(MaxRuns)

\* process_contract putting a file that gave nothing back at the end of the
\* directory's list, to be tried again.
StartContractAgain ==
    /\ pc = "next_contract"
    /\ contract_files # <<>>
    /\ LET path == Head(contract_files)
           data == read_contract_file(path)
       IN  /\ calls' = <<>>
           /\ IF ~truthy(data)
              THEN /\ console' = {<<"No content read from file.", "">>}
                   /\ finished' = None
                   /\ contract_files' = Append(Tail(contract_files), path)
                   /\ pc' = "next_contract"
                   /\ filepath' = <<>>
                   /\ content' = <<>>
                   /\ disk' = disk
              ELSE /\ console' = {}
                   /\ finished' = None
                   /\ contract_files' = Tail(contract_files)
                   /\ pc' = "functions_report"
                   /\ filepath' = path
                   /\ content' = data
                   /\ disk' = save_file(disk, data, base_name_of(path) \o ORIGINAL_SUFFIX,
                                        output_folder)
    /\ functions_report' = <<>>
    /\ journey_report' = <<>>
    /\ journey_diagram' = <<>>
    /\ call_diagram' = <<>>
    /\ UNCHANGED <<inputs, clock, db, counters, output_folder, menus, bench>>

\* process_contract ending the whole directory's loop when a file gives
\* nothing.
StartContractStopping ==
    /\ pc = "next_contract"
    /\ contract_files # <<>>
    /\ LET path == Head(contract_files)
           data == read_contract_file(path)
       IN  /\ calls' = <<>>
           /\ IF ~truthy(data)
              THEN /\ console' = {<<"No content read from file.", "">>}
                   /\ finished' = [filepath |-> path, output_dir |-> output_folder,
                                   completed |-> FALSE]
                   /\ contract_files' = <<>>
                   /\ pc' = "next_contract"
                   /\ filepath' = <<>>
                   /\ content' = <<>>
                   /\ disk' = disk
              ELSE /\ console' = {}
                   /\ finished' = None
                   /\ contract_files' = Tail(contract_files)
                   /\ pc' = "functions_report"
                   /\ filepath' = path
                   /\ content' = data
                   /\ disk' = save_file(disk, data, base_name_of(path) \o ORIGINAL_SUFFIX,
                                        output_folder)
    /\ functions_report' = <<>>
    /\ journey_report' = <<>>
    /\ journey_diagram' = <<>>
    /\ call_diagram' = <<>>
    /\ UNCHANGED <<inputs, clock, db, counters, output_folder, menus, bench>>

\* process_contract, lines 543-553: read the file; return if nothing was
\* read, otherwise save the source and start phase 1.
StartContract ==
    /\ pc = "next_contract"
    /\ contract_files # <<>>
    /\ LET path == Head(contract_files)
           data == read_contract_file(path)
       IN  /\ contract_files' = Tail(contract_files)
           /\ calls' = <<>>
           /\ IF ~truthy(data)
              THEN /\ console' = {<<"No content read from file.", "">>}
                   /\ finished' = [filepath |-> path, output_dir |-> output_folder,
                                   completed |-> FALSE]
                   /\ pc' = "next_contract"
                   /\ filepath' = <<>>
                   /\ content' = <<>>
                   /\ disk' = disk
              ELSE /\ console' = {}
                   /\ finished' = None
                   /\ pc' = "functions_report"
                   /\ filepath' = path
                   /\ content' = data
                   /\ disk' = save_file(disk, data, base_name_of(path) \o ORIGINAL_SUFFIX,
                                        output_folder)
    /\ functions_report' = <<>>
    /\ journey_report' = <<>>
    /\ journey_diagram' = <<>>
    /\ call_diagram' = <<>>
    /\ UNCHANGED <<inputs, clock, db, counters, output_folder, menus, bench>>

\* Phase 1 calling the gateway a second time when the first call gave nothing.
PhaseFunctionsReportRetry ==
    /\ pc = "functions_report"
    /\ \E first \in GatewayResponses, response \in GatewayResponses :
         LET retried == ~truthy(call_llm(functions_report_prompt(content), ANALYSIS_MODEL,
                                         first).value)
             fr == generate_functions_report(content, IF retried THEN response ELSE first)
             base_name == base_name_of(filepath)
             one == CallRecord("generate_functions_report", functions_report_prompt(content),
                               ANALYSIS_MODEL, first)
             two == CallRecord("generate_functions_report", functions_report_prompt(content),
                               ANALYSIS_MODEL, response)
         IN  /\ functions_report' = fr
             /\ calls' = IF retried THEN <<one, two>> ELSE <<one>>
             /\ disk' = save_file(
                          save_file(disk, fr, base_name \o FUNCTIONS_REPORT_SUFFIX, output_folder),
                          preliminary_report_of(base_name, fr),
                          base_name \o PRELIMINARY_REPORT_SUFFIX, output_folder)
    /\ pc' = "journey_report"
    /\ UNCHANGED <<inputs, clock, db, counters, output_folder, contract_files, filepath,
                   content, journey_report, journey_diagram, call_diagram, menus, console,
                   finished, bench>>

\* Lines 555-563.
PhaseFunctionsReport ==
    /\ pc = "functions_report"
    /\ \E response \in GatewayResponses :
         LET fr == generate_functions_report(content, response)
             base_name == base_name_of(filepath)
         IN  /\ functions_report' = fr
             /\ calls' = Append(calls, CallRecord("generate_functions_report",
                                   functions_report_prompt(content), ANALYSIS_MODEL, response))
             /\ disk' = save_file(
                          save_file(disk, fr, base_name \o FUNCTIONS_REPORT_SUFFIX, output_folder),
                          preliminary_report_of(base_name, fr),
                          base_name \o PRELIMINARY_REPORT_SUFFIX, output_folder)
    /\ pc' = "journey_report"
    /\ UNCHANGED <<inputs, clock, db, counters, output_folder, contract_files, filepath,
                   content, journey_report, journey_diagram, call_diagram, menus, console,
                   finished, bench>>

\* Phase 2 keeping its report in memory only, to be written at the end.
PhaseJourneyReportDeferred ==
    /\ pc = "journey_report"
    /\ \E response \in GatewayResponses :
         /\ journey_report' = generate_journey_report(content, response)
         /\ calls' = Append(calls, CallRecord("generate_journey_report",
                               journey_report_prompt(content), ANALYSIS_MODEL, response))
    /\ pc' = "journey_diagram"
    /\ UNCHANGED <<inputs, clock, disk, db, counters, output_folder, contract_files, filepath,
                   content, functions_report, journey_diagram, call_diagram, menus, console,
                   finished, bench>>

\* Lines 565-567.
PhaseJourneyReport ==
    /\ pc = "journey_report"
    /\ \E response \in GatewayResponses :
         LET jr == generate_journey_report(content, response)
         IN  /\ journey_report' = jr
             /\ calls' = Append(calls, CallRecord("generate_journey_report",
                                   journey_report_prompt(content), ANALYSIS_MODEL, response))
             /\ disk' = save_file(disk, jr, base_name_of(filepath) \o JOURNEY_REPORT_SUFFIX,
                                  output_folder)
    /\ pc' = "journey_diagram"
    /\ UNCHANGED <<inputs, clock, db, counters, output_folder, contract_files, filepath,
                   content, functions_report, journey_diagram, call_diagram, menus, console,
                   finished, bench>>

\* Phase 3a ending the contract's run when the journey report is the
\* sentinel.
PhaseJourneyDiagramStopping ==
    /\ pc = "journey_diagram"
    /\ \E response \in GatewayResponses :
         LET jd == generate_journey_diagram(journey_report, response)
         IN  IF journey_report = NO_JOURNEY_REPORT
             THEN /\ pc' = "next_contract"
                  /\ UNCHANGED <<journey_diagram, calls, disk>>
             ELSE /\ pc' = "call_diagram"
                  /\ journey_diagram' = jd
                  /\ calls' = Append(calls, CallRecord("generate_journey_diagram",
                                        journey_diagram_prompt(journey_report),
                                        ANALYSIS_MODEL, response))
                  /\ disk' = save_file(disk, jd,
                                       base_name_of(filepath) \o JOURNEY_DIAGRAM_SUFFIX,
                                       output_folder)
    /\ UNCHANGED <<inputs, clock, db, counters, output_folder, contract_files, filepath,
                   content, functions_report, journey_report, call_diagram, menus, console,
                   finished, bench>>

\* Lines 569-571.
PhaseJourneyDiagram ==
    /\ pc = "journey_diagram"
    /\ \E response \in GatewayResponses :
         LET jd == generate_journey_diagram(journey_report, response)
         IN  /\ journey_diagram' = jd
             /\ calls' = Append(calls, CallRecord("generate_journey_diagram",
                                   journey_diagram_prompt(journey_report), ANALYSIS_MODEL,
                                   response))
             /\ disk' = save_file(disk, jd, base_name_of(filepath) \o JOURNEY_DIAGRAM_SUFFIX,
                                  output_folder)
    /\ pc' = "call_diagram"
    /\ UNCHANGED <<inputs, clock, db, counters, output_folder, contract_files, filepath,
                   content, functions_report, journey_report, call_diagram, menus, console,
                   finished, bench>>

\* Phase 3b given the journey report instead of the functions report.
PhaseCallDiagramFromJourney ==
    /\ pc = "call_diagram"
    /\ \E response \in GatewayResponses :
         LET cd == generate_call_diagram(journey_report, response)
         IN  /\ call_diagram' = cd
             /\ calls' = Append(calls, CallRecord("generate_call_diagram",
                                   call_diagram_prompt(journey_report), ANALYSIS_MODEL,
                                   response))
             /\ disk' = save_file(disk, cd, base_name_of(filepath) \o CALL_DIAGRAM_SUFFIX,
                                  output_folder)
    /\ pc' = "combined_report"
    /\ UNCHANGED <<inputs, clock, db, counters, output_folder, contract_files, filepath,
                   content, functions_report, journey_report, journey_diagram, menus, console,
                   finished, bench>>

\* Lines 572-573.
PhaseCallDiagram ==
    /\ pc = "call_diagram"
    /\ \E response \in GatewayResponses :
         LET cd == generate_call_diagram(functions_report, response)
         IN  /\ call_diagram' = cd
             /\ calls' = Append(calls, CallRecord("generate_call_diagram",
                                   call_diagram_prompt(functions_report), ANALYSIS_MODEL,
                                   response))
             /\ disk' = save_file(disk, cd, base_name_of(filepath) \o CALL_DIAGRAM_SUFFIX,
                                  output_folder)
    /\ pc' = "combined_report"
    /\ UNCHANGED <<inputs, clock, db, counters, output_folder, contract_files, filepath,
                   content, functions_report, journey_report, journey_diagram, menus, console,
                   finished, bench>>

\* Lines 575-584: the combined report, the table row, and the return (the
\* locals of process_contract end with it).
PhaseCombinedReport ==
    /\ pc = "combined_report"
    /\ disk' = save_file(disk,
                         final_report_of(base_name_of(filepath), functions_report,
                                         journey_report, journey_diagram, call_diagram),
                         base_name_of(filepath) \o ANALYSIS_REPORT_SUFFIX, output_folder)
    /\ db' = save_analysis(db, contract_id_of(filepath, content), basename(filepath), content,
                           functions_report, journey_report, journey_diagram, call_diagram,
                           clock)
    /\ finished' = [filepath |-> filepath, output_dir |-> output_folder, completed |-> TRUE]
    /\ pc' = "next_contract"
    /\ filepath' = <<>>
    /\ content' = <<>>
    /\ functions_report' = <<>>
    /\ journey_report' = <<>>
    /\ journey_diagram' = <<>>
    /\ call_diagram' = <<>>
    /\ UNCHANGED <<inputs, clock, counters, output_folder, contract_files, menus, calls,
                   console, bench>>

\* main, lines 627-629: every file processed; on to the session's menu.
AllProcessed ==
    /\ pc = "next_contract"
    /\ contract_files = <<>>
    /\ pc' = "session_menu"
    /\ session_folder' = output_folder
    /\ calls' = <<>>
    /\ console' = {}
    /\ finished' = None
    /\ UNCHANGED <<inputs, clock, disk, db, counters, output_folder, contract_files, locals,
                   contract_base, reply, bench>>

InPipeline ==
    pc \in {"next_contract", "functions_report", "journey_report", "journey_diagram",
            "call_diagram", "combined_report"}

InRepair == pc \in {"repair_journey", "repair_call"}

\* The process is interrupted in the middle of an operation and started
\* again: what was in memory is gone, what was written stays.
Crash ==
    /\ InPipeline \/ InRepair
    /\ pc' = "main_menu"
    /\ output_folder' = 0
    /\ contract_files' = <<>>
    /\ filepath' = <<>>
    /\ content' = <<>>
    /\ functions_report' = <<>>
    /\ journey_report' = <<>>
    /\ journey_diagram' = <<>>
    /\ call_diagram' = <<>>
    /\ session_folder' = 0
    /\ contract_base' = <<>>
    /\ reply' = None
    /\ calls' = <<>>
    /\ console' = {}
    /\ finished' = None
    /\ UNCHANGED <<inputs, clock, disk, db, counters, bench>>

----------------------------------------------------------------------------
(* Browsing: browse_sessions, contract_menu_in_session, show_contract_menu. *)

\* str.replace(old, new), old not empty: every occurrence, left to right.
RECURSIVE py_replace(_, _, _)
py_replace(s, old, new) ==
    IF Len(s) < Len(old) THEN s
    ELSE IF startswith(s, old)
    THEN new \o py_replace(SubSeq(s, Len(old) + 1, Len(s)), old, new)
    ELSE <<Head(s)>> \o py_replace(Tail(s), old, new)

\* contract_menu_in_session, line 490: the combined reports of a session.
ReportsIn(folder) ==
    {name \in DOMAIN disk[folder] : endswith(name, ANALYSIS_REPORT_SUFFIX)}

\* Lines 498-500: the base names the menu lists.
ContractBases(folder) ==
    {py_replace(report, ANALYSIS_REPORT_SUFFIX, <<>>) : report \in ReportsIn(folder)}

\* main, choice 2: browse_sessions and the choice of a session.
BrowseSessions ==
    /\ pc = "main_menu"
    /\ \E session \in DOMAIN disk : session_folder' = session
    /\ pc' = "session_menu"
    /\ UNCHANGED <<inputs, clock, disk, db, counters, output_folder, contract_files, locals,
                   contract_base, reply, calls, console, finished, bench>>

\* contract_menu_in_session: a listed contract is chosen.
SelectContract ==
    /\ pc = "session_menu"
    /\ \E base \in ContractBases(session_folder) : contract_base' = base
    /\ pc' = "contract_menu"
    /\ UNCHANGED <<inputs, clock, disk, db, counters, output_folder, contract_files, locals,
                   session_folder, reply, calls, console, finished, bench>>

\* contract_menu_in_session returns (no report found, or "back"); main is at
\* its menu again and the locals of the finished operation are dead.
LeaveSession ==
    /\ pc = "session_menu"
    /\ pc' = "main_menu"
    /\ output_folder' = 0
    /\ filepath' = <<>>
    /\ content' = <<>>
    /\ functions_report' = <<>>
    /\ journey_report' = <<>>
    /\ journey_diagram' = <<>>
    /\ call_diagram' = <<>>
    /\ session_folder' = 0
    /\ reply' = None
    /\ calls' = <<>>
    /\ console' = {}
    /\ finished' = None
    /\ UNCHANGED <<inputs, clock, disk, db, counters, contract_files, contract_base, bench>>

\* show_contract_menu, choice 7.
LeaveContract ==
    /\ pc = "contract_menu"
    /\ pc' = "session_menu"
    /\ contract_base' = <<>>
    /\ reply' = None
    /\ calls' = <<>>
    /\ console' = {}
    /\ UNCHANGED <<inputs, clock, disk, db, counters, output_folder, contract_files, locals,
                   session_folder, finished, bench>>

----------------------------------------------------------------------------
(* Querying: show_contract_menu, choice 5, and query_report. *)

\* The text of a context file, or the given text when open or read raises.
read_or(files, name, otherwise) ==
    IF read_file(files, name).exc THEN otherwise ELSE read_file(files, name).data

\* query_report's prompt with the source ahead of the report.
query_prompt_source_first(report_content, original_content, jd, cd, query) ==
    [lead |-> "Based on the following materials",
     sections |-> << <<"Original Code", original_content>>,
                     <<"Report Content", report_content>>,
                     <<"Journey Diagram", jd>>,
                     <<"Call Diagram", cd>> >>,
     query |-> query]

\* Lines 358-370: the sections of query_report's prompt, in their order, and
\* the user's question after them.
query_prompt(report_content, original_content, jd, cd, query) ==
    [lead |-> "Based on the following materials",
     sections |-> << <<"Report Content", report_content>>,
                     <<"Original Code", original_content>>,
                     <<"Journey Diagram", jd>>,
                     <<"Call Diagram", cd>> >>,
     query |-> query]

\* Lines 337-375, as the prompt the gateway is called with.
query_report_prompt(files, report_content, base, query) ==
    query_prompt(report_content,
                 read_or(files, base \o ORIGINAL_SUFFIX, NO_ORIGINAL_CODE),
                 read_or(files, base \o JOURNEY_DIAGRAM_SUFFIX, NO_JOURNEY_DIAGRAM),
                 read_or(files, base \o CALL_DIAGRAM_SUFFIX, NO_CALL_DIAGRAM),
                 query)

\* show_contract_menu, lines 459-479: the report to query is chosen and read;
\* if it cannot be read the error is printed and nothing is asked, otherwise
\* query_report asks the gateway once.
QueryReport ==
    /\ pc = "contract_menu"
    /\ \E report_choice \in {"a", "b", "c"}, response \in GatewayResponses :
         LET files == disk[session_folder]
             report_file == contract_base \o (IF report_choice = "a"
                                              THEN FUNCTIONS_REPORT_SUFFIX
                                              ELSE JOURNEY_REPORT_SUFFIX)
             report == read_file(files, report_file)
             prompt == query_report_prompt(files, report.data, contract_base, QuestionText)
         IN  /\ reply' = [asked |-> TRUE, answer |-> report_choice]
             /\ IF report_choice \notin {"a", "b"}
                THEN /\ calls' = <<>>
                     /\ console' = {}
                ELSE IF report.exc
                THEN /\ calls' = <<>>
                     /\ console' = {<<"Error reading report", report_choice>>}
                ELSE /\ calls' = <<CallRecord("query_report", prompt, QUERY_MODEL, response)>>
                     /\ console' = {}
    /\ UNCHANGED <<inputs, clock, disk, db, pc, counters, output_folder, contract_files,
                   locals, session_folder, contract_base, finished, bench>>

----------------------------------------------------------------------------
(* Repair: check_and_regenerate_diagrams. *)

\* show_contract_menu, choice 6: check_and_regenerate_diagrams is entered.
StartRepair ==
    /\ pc = "contract_menu"
    /\ repairs < MaxRepairs
    /\ repairs' = repairs + 1
    /\ pc' = "repair_journey"
    /\ reply' = None
    /\ calls' = <<>>
    /\ console' = {}
    /\ UNCHANGED <<inputs, clock, disk, db, runs, tampers, output_folder, contract_files,
                   locals, session_folder, contract_base, finished, bench>>

\* The journey block regenerating from the source as the analysed directory
\* holds it, not from the session's copy.
CheckJourneyDiagramFromInput ==
    /\ pc = "repair_journey"
    /\ \E choice \in {"y", "n"}, response \in GatewayResponses :
         LET files == disk[session_folder]
             jd_file == contract_base \o JOURNEY_DIAGRAM_SUFFIX
             loaded == read_file(files, jd_file)
             jd_content == IF loaded.exc THEN <<>> ELSE strip(loaded.data)
             read_error == IF loaded.exc THEN {<<"Error reading", "jd_file">>} ELSE {}
             sc_file == contract_base \o ORIGINAL_SUFFIX
             source == read_file(inputs, CHOOSE path \in DOMAIN inputs :
                                             base_name_of(path) = contract_base)
             contract_content == IF source.exc THEN <<>> ELSE source.data
             new_jd == regenerate_journey_diagram_from_contract(contract_content, response)
         IN  IF is_valid_mermaid(jd_content)
             THEN /\ reply' = [asked |-> FALSE, answer |-> ""]
                  /\ console' = console \cup read_error
                  /\ UNCHANGED <<disk, calls>>
             ELSE /\ reply' = [asked |-> TRUE, answer |-> choice]
                  /\ IF choice # "y"
                     THEN /\ console' = console \cup read_error
                          /\ UNCHANGED <<disk, calls>>
                     ELSE IF sc_file \notin DOMAIN files
                     THEN /\ console' = console \cup read_error \cup
                                 {<<"Original contract file not found", "journey diagram">>}
                          /\ UNCHANGED <<disk, calls>>
                     ELSE /\ console' = console \cup read_error \cup
                                 (IF source.exc THEN {<<"Error reading", "sc_file">>} ELSE {})
                          /\ calls' = Append(calls,
                                 CallRecord("regenerate_journey_diagram_from_contract",
                                            regenerate_journey_prompt(contract_content),
                                            ANALYSIS_MODEL, response))
                          /\ disk' = save_file(disk, new_jd, jd_file, session_folder)
    /\ pc' = "repair_call"
    /\ UNCHANGED <<inputs, clock, db, counters, output_folder, contract_files, locals,
                   session_folder, contract_base, finished, bench>>

\* Lines 392-415: the journey diagram is read and validated; if it is not
\* valid the user is asked, and on "y" the saved source is read and the
\* diagram regenerated from it and saved.
CheckJourneyDiagram ==
    /\ pc = "repair_journey"
    /\ \E choice \in {"y", "n"}, response \in GatewayResponses :
         LET files == disk[session_folder]
             jd_file == contract_base \o JOURNEY_DIAGRAM_SUFFIX
             loaded == read_file(files, jd_file)
             jd_content == IF loaded.exc THEN <<>> ELSE strip(loaded.data)
             read_error == IF loaded.exc THEN {<<"Error reading", "jd_file">>} ELSE {}
             sc_file == contract_base \o ORIGINAL_SUFFIX
             source == read_file(files, sc_file)
             contract_content == IF source.exc THEN <<>> ELSE source.data
             new_jd == regenerate_journey_diagram_from_contract(contract_content, response)
         IN  IF is_valid_mermaid(jd_content)
             THEN /\ reply' = [asked |-> FALSE, answer |-> ""]
                  /\ console' = console \cup read_error
                  /\ UNCHANGED <<disk, calls>>
             ELSE /\ reply' = [asked |-> TRUE, answer |-> choice]
                  /\ IF choice # "y"
                     THEN /\ console' = console \cup read_error
                          /\ UNCHANGED <<disk, calls>>
                     ELSE IF sc_file \notin DOMAIN files
                     THEN /\ console' = console \cup read_error \cup
                                 {<<"Original contract file not found", "journey diagram">>}
                          /\ UNCHANGED <<disk, calls>>
                     ELSE /\ console' = console \cup read_error \cup
                                 (IF source.exc THEN {<<"Error reading", "sc_file">>} ELSE {})
                          /\ calls' = Append(calls,
                                 CallRecord("regenerate_journey_diagram_from_contract",
                                            regenerate_journey_prompt(contract_content),
                                            ANALYSIS_MODEL, response))
                          /\ disk' = save_file(disk, new_jd, jd_file, session_folder)
    /\ pc' = "repair_call"
    /\ UNCHANGED <<inputs, clock, db, counters, output_folder, contract_files, locals,
                   session_folder, contract_base, finished, bench>>

\* The call diagram's block regenerating an invalid diagram whatever the user
\* answers.
CheckCallDiagramUnasked ==
    /\ pc = "repair_call"
    /\ \E choice \in {"y", "n"}, response \in GatewayResponses :
         LET files == disk[session_folder]
             cd_file == contract_base \o CALL_DIAGRAM_SUFFIX
             loaded == read_file(files, cd_file)
             cd_content == IF loaded.exc THEN <<>> ELSE strip(loaded.data)
             read_error == IF loaded.exc THEN {<<"Error reading", "cd_file">>} ELSE {}
             sc_file == contract_base \o ORIGINAL_SUFFIX
             source == read_file(files, sc_file)
             contract_content == IF source.exc THEN <<>> ELSE source.data
             new_cd == regenerate_call_diagram_from_contract(contract_content, response)
         IN  IF is_valid_mermaid(cd_content)
             THEN /\ reply' = [asked |-> FALSE, answer |-> ""]
                  /\ console' = console \cup read_error
                  /\ UNCHANGED <<disk, calls>>
             ELSE /\ reply' = [asked |-> TRUE, answer |-> choice]
                  /\ IF FALSE
                     THEN /\ console' = console \cup read_error
                          /\ UNCHANGED <<disk, calls>>
                     ELSE IF sc_file \notin DOMAIN files
                     THEN /\ console' = console \cup read_error \cup
                                 {<<"Original contract file not found", "call diagram">>}
                          /\ UNCHANGED <<disk, calls>>
                     ELSE /\ console' = console \cup read_error \cup
                                 (IF source.exc THEN {<<"Error reading", "sc_file">>} ELSE {})
                          /\ calls' = Append(calls,
                                 CallRecord("regenerate_call_diagram_from_contract",
                                            regenerate_call_prompt(contract_content),
                                            ANALYSIS_MODEL, response))
                          /\ disk' = save_file(disk, new_cd, cd_file, session_folder)
    /\ pc' = "contract_menu"
    /\ UNCHANGED <<inputs, clock, db, counters, output_folder, contract_files, locals,
                   session_folder, contract_base, finished, bench>>

\* Lines 416-438: the same for the call diagram, and the return to the
\* contract's menu.
CheckCallDiagram ==
    /\ pc = "repair_call"
    /\ \E choice \in {"y", "n"}, response \in GatewayResponses :
         LET files == disk[session_folder]
             cd_file == contract_base \o CALL_DIAGRAM_SUFFIX
             loaded == read_file(files, cd_file)
             cd_content == IF loaded.exc THEN <<>> ELSE strip(loaded.data)
             read_error == IF loaded.exc THEN {<<"Error reading", "cd_file">>} ELSE {}
             sc_file == contract_base \o ORIGINAL_SUFFIX
             source == read_file(files, sc_file)
             contract_content == IF source.exc THEN <<>> ELSE source.data
             new_cd == regenerate_call_diagram_from_contract(contract_content, response)
         IN  IF is_valid_mermaid(cd_content)
             THEN /\ reply' = [asked |-> FALSE, answer |-> ""]
                  /\ console' = console \cup read_error
                  /\ UNCHANGED <<disk, calls>>
             ELSE /\ reply' = [asked |-> TRUE, answer |-> choice]
                  /\ IF choice # "y"
                     THEN /\ console' = console \cup read_error
                          /\ UNCHANGED <<disk, calls>>
                     ELSE IF sc_file \notin DOMAIN files
                     THEN /\ console' = console \cup read_error \cup
                                 {<<"Original contract file not found", "call diagram">>}
                          /\ UNCHANGED <<disk, calls>>
                     ELSE /\ console' = console \cup read_error \cup
                                 (IF source.exc THEN {<<"Error reading", "sc_file">>} ELSE {})
                          /\ calls' = Append(calls,
                                 CallRecord("regenerate_call_diagram_from_contract",
                                            regenerate_call_prompt(contract_content),
                                            ANALYSIS_MODEL, response))
                          /\ disk' = save_file(disk, new_cd, cd_file, session_folder)
    /\ pc' = "contract_menu"
    /\ UNCHANGED <<inputs, clock, db, counters, output_folder, contract_files, locals,
                   session_folder, contract_base, finished, bench>>

----------------------------------------------------------------------------
(* The environment: persisted files deleted or made unreadable from        *)
(* outside while the program waits at a menu.                              *)

AtMenu == pc \in {"main_menu", "session_menu", "contract_menu"}

EnvDelete ==
    /\ AtMenu
    /\ tampers < MaxTampers
    /\ tampers' = tampers + 1
    /\ \E session \in DOMAIN disk : \E name \in DOMAIN disk[session] :
         disk' = [disk EXCEPT ![session] =
                     [n \in (DOMAIN disk[session]) \ {name} |-> disk[session][n]]]
    /\ UNCHANGED <<inputs, clock, db, pc, runs, repairs, output_folder, contract_files,
                   locals, menus, calls, console, finished, bench>>

EnvCorrupt ==
    /\ AtMenu
    /\ tampers < MaxTampers
    /\ tampers' = tampers + 1
    /\ \E session \in DOMAIN disk : \E name \in DOMAIN disk[session] :
         /\ disk[session][name].ok
         /\ disk' = [disk EXCEPT ![session][name] = Unreadable]
    /\ UNCHANGED <<inputs, clock, db, pc, runs, repairs, output_folder, contract_files,
                   locals, menus, calls, console, finished, bench>>

\* A persisted file is given another text from outside.
EnvEdit ==
    /\ AtMenu
    /\ tampers < MaxTampers
    /\ tampers' = tampers + 1
    /\ \E session \in DOMAIN disk : \E name \in DOMAIN disk[session] :
         /\ disk[session][name].ok
         /\ disk[session][name].data # EditedSource
         /\ disk' = [disk EXCEPT ![session][name] = File(EditedSource)]
    /\ UNCHANGED <<inputs, clock, db, pc, runs, repairs, output_folder, contract_files,
                   locals, menus, calls, console, finished, bench>>

----------------------------------------------------------------------------
(* Specifications. *)

Next ==
    \/ AnalyseDirectory
    \/ StartContract
    \/ PhaseFunctionsReport
    \/ PhaseJourneyReport
    \/ PhaseJourneyDiagram
    \/ PhaseCallDiagram
    \/ PhaseCombinedReport
    \/ AllProcessed
    \/ Crash
    \/ BrowseSessions
    \/ SelectContract
    \/ LeaveSession
    \/ LeaveContract
    \/ StartRepair
    \/ CheckJourneyDiagram
    \/ CheckCallDiagram

\* The program on its own: pipeline runs, interrupted runs, browsing, repair.
Spec == Init /\ [][Next]_vars

NextEnv ==
    \/ Next
    \/ EnvDelete
    \/ EnvCorrupt

\* The program with persisted files changed from outside.
SpecEnv == Init /\ [][NextEnv]_vars

NextEdit ==
    \/ Next
    \/ EnvEdit

\* The program with persisted files edited from outside.
SpecEdit == Init /\ [][NextEdit]_vars

\* A step of the analysis of a directory, once it has been started.
RunStep ==
    \/ StartContract
    \/ PhaseFunctionsReport
    \/ PhaseJourneyReport
    \/ PhaseJourneyDiagram
    \/ PhaseCallDiagram
    \/ PhaseCombinedReport
    \/ AllProcessed

NextRun ==
    \/ AnalyseDirectory
    \/ RunStep

\* The analysis of a directory, not interrupted, every gateway call
\* returning: the program's next step is always taken in the end.
SpecRun == Init /\ [][NextRun]_vars /\ WF_vars(RunStep)

----------------------------------------------------------------------------
(* The validator on its own: is_valid_mermaid applied to every payload     *)
(* made of at most MaxChunks chunks.                                       *)

Chunks ==
    { <<" ">>, <<"\n">>, <<"x">>, FLOWCHART_TD, SubSeq(FLOWCHART_TD, 1, 11),
      SEQUENCE_DIAGRAM, DEFAULT_MARKER, SubSeq(DEFAULT_MARKER, 1, 7),
      SubSeq(DEFAULT_MARKER, 8, 15) }

RECURSIVE Concat(_)
Concat(chunks) ==
    IF chunks = <<>> THEN <<>> ELSE Head(chunks) \o Concat(Tail(chunks))

Payloads ==
    { Concat(chunks) : chunks \in UNION {[1..n -> Chunks] : n \in 0..MaxChunks} }

InitValidator ==
    /\ inputs = NoFiles
    /\ probe \in Payloads
    /\ InitProgram

Validate ==
    /\ pc = "main_menu"
    /\ outcome = None
    /\ outcome' = [valid |-> is_valid_mermaid(probe)]
    /\ UNCHANGED <<inputs, clock, disk, db, pc, counters, output_folder, contract_files,
                   locals, menus, calls, console, finished, probe>>

SpecValidator == InitValidator /\ [][Validate]_vars

----------------------------------------------------------------------------
(* The gateway on its own: call_llm applied to every response made of the  *)
(* shapes below.                                                           *)

SampleTexts == { <<>>, <<" ">>, ProseText, DiagramBody }

\* What may stand where the completion's "text" is expected.
TextValues ==
    {JNull, JBool, JNumber, JList(<<>>), JDict(NoFields)} \cup {JString(s) : s \in SampleTexts}

\* What may stand where a choice is expected.
ChoiceValues ==
    {JNull, JBool, JNumber, JString(ProseText), JList(<<>>), JDict(NoFields)}
        \cup {JDict([k \in {"text"} |-> t]) : t \in TextValues}

\* What may stand where the list of choices is expected.
ChoicesValues ==
    {JNull, JBool, JNumber, JString(<<>>), JString(ProseText), JList(<<>>), JDict(NoFields)}
        \cup {JList(<<c>>) : c \in ChoiceValues}

Bodies ==
    {NotJson, JNull, JBool, JNumber, JString(ProseText), JList(<<>>), JList(<<JNumber>>),
     JDict(NoFields)}
        \cup {JDict([k \in {"choices"} |-> c]) : c \in ChoicesValues}

StatusCodes == {HTTP_OK, 201, 204, 404, 500}

Responses ==
    {TransportError} \cup {Http(status_code, body) : status_code \in StatusCodes, body \in Bodies}

InitGateway ==
    /\ inputs = NoFiles
    /\ probe \in Responses
    /\ InitProgram

Invoke ==
    /\ pc = "main_menu"
    /\ outcome = None
    /\ outcome' = call_llm(Prompt("Phase 1", "Smart Contract Code:", SourceA),
                           ANALYSIS_MODEL, probe)
    /\ UNCHANGED <<inputs, clock, disk, db, pc, counters, output_folder, contract_files,
                   locals, menus, calls, console, finished, probe>>

SpecGateway == InitGateway /\ [][Invoke]_vars

----------------------------------------------------------------------------
(* Sessions: the same directory analysed up to MaxSessions times, the       *)
(* second of the clock passing or not in between.  The directory holds a    *)
(* file that is no contract and one contract, whose name may hold the       *)
(* combined report's suffix.                                                *)

\* datetime.now() is a later second than it was.
Tick ==
    /\ clock < MaxClock
    /\ clock' = clock + 1
    /\ UNCHANGED <<inputs, disk, db, pc, counters, output_folder, contract_files, locals,
                   menus, calls, console, finished, bench>>

AnalyseDirectoryAgain == AnalyseDirectoryWithin(MaxSessions)

SessionDirectories ==
    { (PathA :> File(SourceA)) @@ (PathN :> File(ProseText)),
      (PathC :> File(SourceA)) @@ (PathN :> File(ProseText)) }

InitSessions ==
    /\ inputs \in SessionDirectories
    /\ probe = None
    /\ InitProgram

NextSessions ==
    \/ AnalyseDirectoryAgain
    \/ StartContract
    \/ PhaseFunctionsReport
    \/ PhaseJourneyReport
    \/ PhaseJourneyDiagram
    \/ PhaseCallDiagram
    \/ PhaseCombinedReport
    \/ AllProcessed
    \/ LeaveSession
    \/ Tick

SpecSessions == InitSessions /\ [][NextSessions]_vars

----------------------------------------------------------------------------
(* The fingerprint on its own: contract_id_of applied to two contracts,     *)
(* each a path and a text that process_contract accepts.                    *)

FingerprintPaths == {PathA, PathB, PathC, PathA \o DOT_SOL}

FingerprintContents == {SourceA, BlankSource, DOT_SOL \o SourceA}

InitFingerprint ==
    /\ inputs = NoFiles
    /\ probe \in [first : FingerprintPaths \X FingerprintContents,
                  second : FingerprintPaths \X FingerprintContents]
    /\ InitProgram

Fingerprint ==
    /\ pc = "main_menu"
    /\ outcome = None
    /\ outcome' = [first |-> contract_id_of(probe.first[1], probe.first[2]),
                   second |-> contract_id_of(probe.second[1], probe.second[2])]
    /\ UNCHANGED <<inputs, clock, disk, db, pc, counters, output_folder, contract_files,
                   locals, menus, calls, console, finished, probe>>

SpecFingerprint == InitFingerprint /\ [][Fingerprint]_vars

----------------------------------------------------------------------------
(* Querying on its own: the program at its main menu with one session on   *)
(* the disk, left by a run of process_contract on the first contract, in   *)
(* which each context file of the contract is as written, has been         *)
(* deleted, or cannot be read.                                             *)

\* The files process_contract writes for a contract (lines 553-583), given
\* what the gateway answered to the four calls.
ArtifactsOfRun(path, data, answers) ==
    LET base_name == base_name_of(path)
        fr == generate_functions_report(data, answers[1])
        jr == generate_journey_report(data, answers[2])
        jd == generate_journey_diagram(jr, answers[3])
        cd == generate_call_diagram(fr, answers[4])
    IN  (base_name \o ORIGINAL_SUFFIX :> File(data))
        @@ (base_name \o FUNCTIONS_REPORT_SUFFIX :> File(fr))
        @@ (base_name \o PRELIMINARY_REPORT_SUFFIX :> File(preliminary_report_of(base_name, fr)))
        @@ (base_name \o JOURNEY_REPORT_SUFFIX :> File(jr))
        @@ (base_name \o JOURNEY_DIAGRAM_SUFFIX :> File(jd))
        @@ (base_name \o CALL_DIAGRAM_SUFFIX :> File(cd))
        @@ (base_name \o ANALYSIS_REPORT_SUFFIX :> File(final_report_of(base_name, fr, jr, jd, cd)))

\* The row process_contract writes at its end (line 584).
RowOfRun(path, data, answers, now) ==
    LET fr == generate_functions_report(data, answers[1])
        jr == generate_journey_report(data, answers[2])
    IN  save_analysis(NoRows, contract_id_of(path, data), basename(path), data, fr, jr,
                      generate_journey_diagram(jr, answers[3]),
                      generate_call_diagram(fr, answers[4]), now)

\* The files of a contract that a query reads.
ContextSuffixes ==
    {FUNCTIONS_REPORT_SUFFIX, JOURNEY_REPORT_SUFFIX, ORIGINAL_SUFFIX, JOURNEY_DIAGRAM_SUFFIX,
     CALL_DIAGRAM_SUFFIX}

\* files with each file of the names given as written, deleted or unreadable.
Damaged(files, names) ==
    { [n \in (DOMAIN files) \ gone |-> IF n \in broken THEN Unreadable ELSE files[n]] :
        gone \in SUBSET names, broken \in SUBSET names }

QueryAnswers ==
    <<Http(HTTP_OK, Completion(ProseText)), Http(HTTP_OK, Completion(ProseText)),
      Http(HTTP_OK, Completion(DiagramBody)), TransportError>>

InitQuery ==
    /\ inputs = (PathA :> File(SourceA)) @@ (PathB :> Unreadable)
    /\ probe = None
    /\ clock = 2
    /\ disk \in { (1 :> files) :
                    files \in Damaged(ArtifactsOfRun(PathA, SourceA, QueryAnswers),
                                      {base_name_of(PathA) \o suffix : suffix \in ContextSuffixes}) }
    /\ db = RowOfRun(PathA, SourceA, QueryAnswers, 1)
    /\ pc = "main_menu"
    /\ runs = 1
    /\ repairs = 0
    /\ tampers = 0
    /\ output_folder = 0
    /\ contract_files = <<>>
    /\ filepath = <<>>
    /\ content = <<>>
    /\ functions_report = <<>>
    /\ journey_report = <<>>
    /\ journey_diagram = <<>>
    /\ call_diagram = <<>>
    /\ session_folder = 0
    /\ contract_base = <<>>
    /\ reply = None
    /\ calls = <<>>
    /\ console = {}
    /\ finished = None
    /\ outcome = None

NextQuery ==
    \/ BrowseSessions
    \/ SelectContract
    \/ QueryReport
    \/ LeaveContract
    \/ LeaveSession

SpecQuery == InitQuery /\ [][NextQuery]_vars

----------------------------------------------------------------------------
(* Properties of the pipeline. *)

Generators(log) == [i \in DOMAIN log |-> log[i].generator]

PhaseOrder ==
    <<"generate_functions_report", "generate_journey_report", "generate_journey_diagram",
      "generate_call_diagram">>

Phases ==
    {"functions_report", "journey_report", "journey_diagram", "call_diagram", "combined_report"}

\* The position of a program point in Start -> FunctionsReport -> JourneyReport
\* -> JourneyDiagram -> CallDiagram -> CombinedReport -> Done.
PhaseIndex(p) ==
    CASE p = "functions_report" -> 1
      [] p = "journey_report" -> 2
      [] p = "journey_diagram" -> 3
      [] p = "call_diagram" -> 4
      [] p = "combined_report" -> 5
      [] OTHER -> 6

Min(a, b) == IF a < b THEN a ELSE b

\* C1: a run of process_contract on a source read as non-empty text goes
\* through FunctionsReport, JourneyReport, JourneyDiagram, CallDiagram,
\* CombinedReport, Done in this order whatever the gateway returns: every step
\* of a run that is not interrupted moves to the next phase, and the gateway
\* calls made so far are exactly the generators of the phases passed, one call
\* each, in order.
C1_PhaseOrder ==
    [][ /\ (pc = "next_contract" /\ pc' \in Phases)
            => (pc' = "functions_report" /\ truthy(content') /\ calls' = <<>>)
        /\ (pc \in Phases /\ pc' # "main_menu")
            => /\ PhaseIndex(pc') = PhaseIndex(pc) + 1
               /\ Generators(calls') = SubSeq(PhaseOrder, 1, Min(PhaseIndex(pc), 4))
      ]_vars

\* A run has reached Done having made its four calls.
C1_Witness ==
    /\ pc = "next_contract"
    /\ finished # None
    /\ finished.completed
    /\ Generators(calls) = PhaseOrder

ArtifactSuffixes ==
    {FUNCTIONS_REPORT_SUFFIX, JOURNEY_REPORT_SUFFIX, JOURNEY_DIAGRAM_SUFFIX, CALL_DIAGRAM_SUFFIX}

\* The four artifacts of a contract are files of the session holding text that
\* is not empty, and the combined report is a file holding all four texts.
FourArtifactsAndCombined(folder, base) ==
    LET files == disk[folder]
        report == base \o ANALYSIS_REPORT_SUFFIX
    IN  /\ \A suffix \in ArtifactSuffixes :
              /\ base \o suffix \in DOMAIN files
              /\ files[base \o suffix].ok
              /\ files[base \o suffix].data # <<>>
        /\ report \in DOMAIN files
        /\ files[report].ok
        /\ \A suffix \in ArtifactSuffixes :
              contains(files[report].data, files[base \o suffix].data)

ArtifactText(folder, base, suffix) == disk[folder][base \o suffix].data

\* C3: when every gateway call of a run failed (transport error or a status
\* other than 200), the run reaches its end and the persisted artifacts are the
\* two sentinel texts and the placeholder diagram, twice.
C3_AllCallsFail ==
    (finished # None /\ finished.completed /\ \A i \in DOMAIN calls : calls[i].failed)
        => LET folder == finished.output_dir
               base == base_name_of(finished.filepath)
           IN  /\ ArtifactText(folder, base, FUNCTIONS_REPORT_SUFFIX) = NO_FUNCTIONS_REPORT
               /\ ArtifactText(folder, base, JOURNEY_REPORT_SUFFIX) = NO_JOURNEY_REPORT
               /\ ArtifactText(folder, base, JOURNEY_DIAGRAM_SUFFIX) = DEFAULT_JOURNEY_DIAGRAM
               /\ ArtifactText(folder, base, CALL_DIAGRAM_SUFFIX) = DEFAULT_CALL_DIAGRAM

\* A run whose four calls all failed has returned.
C3_Witness ==
    /\ finished # None
    /\ finished.completed
    /\ Len(calls) = 4
    /\ \A i \in DOMAIN calls : calls[i].failed

HasText(files, name, data) == name \in DOMAIN files /\ files[name] = File(data)

\* The artifacts of the first k stages of the run under way are files of the
\* session holding what the generators returned.
PersistedStages(dsk, k) ==
    LET files == dsk[output_folder]
        base == base_name_of(filepath)
    IN  /\ k >= 1 => HasText(files, base \o FUNCTIONS_REPORT_SUFFIX, functions_report)
        /\ k >= 2 => HasText(files, base \o JOURNEY_REPORT_SUFFIX, journey_report)
        /\ k >= 3 => HasText(files, base \o JOURNEY_DIAGRAM_SUFFIX, journey_diagram)
        /\ k >= 4 => HasText(files, base \o CALL_DIAGRAM_SUFFIX, call_diagram)

RowText(row, suffix) ==
    CASE suffix = FUNCTIONS_REPORT_SUFFIX -> row.functions_report
      [] suffix = JOURNEY_REPORT_SUFFIX -> row.journey_report
      [] suffix = JOURNEY_DIAGRAM_SUFFIX -> row.journey_diagram
      [] suffix = CALL_DIAGRAM_SUFFIX -> row.call_diagram

\* C5, as claimed: with no operation under way, whenever an artifact file of a
\* contract exists in a session, the row keyed by the contract's fingerprint
\* exists and holds the same text for that artifact kind.
C5_FilesMatchRows ==
    AtMenu =>
        \A folder \in DOMAIN disk, path \in DOMAIN inputs, suffix \in ArtifactSuffixes :
            LET name == base_name_of(path) \o suffix
                id == contract_id_of(path, inputs[path].data)
            IN  name \in DOMAIN disk[folder]
                    => /\ id \in DOMAIN db
                       /\ RowText(db[id], suffix) = disk[folder][name].data

\* The diagram file a step of check_and_regenerate_diagrams is about.
RepairSuffix(p) ==
    IF p = "repair_journey" THEN JOURNEY_DIAGRAM_SUFFIX ELSE CALL_DIAGRAM_SUFFIX

\* A step of check_and_regenerate_diagrams that called the gateway.
Regenerated == InRepair /\ pc' # "main_menu" /\ Len(calls') = Len(calls) + 1

\* C6, as claimed: when repair regenerates a diagram, the diagram persisted
\* afterwards passes the validator, or the persisted diagram is left as it was.
C6_RepairMonotonic ==
    [][ Regenerated
            => LET name == contract_base \o RepairSuffix(pc)
               IN  \/ is_valid_mermaid(disk'[session_folder][name].data)
                   \/ disk' = disk
      ]_vars

\* The text read from a persisted file, empty when it cannot be read.
TextOf(files, name) == read_file(files, name).data

Readable(files, name) == ~read_file(files, name).exc

LastCall == calls'[Len(calls')]

\* A step that called the gateway once.
Called == pc' # "main_menu" /\ Len(calls') = Len(calls) + 1

UpstreamSuffix(p) ==
    IF p = "repair_journey" THEN JOURNEY_REPORT_SUFFIX ELSE FUNCTIONS_REPORT_SUFFIX

\* C8, as claimed: when a diagram is invalid and the user accepts regeneration
\* while the persisted raw source or the report the diagram depends on is
\* missing or cannot be read, no gateway call is made, the condition is
\* reported and the persisted files are left unchanged.
C8_MissingDependencySkips ==
    [][ ( /\ InRepair
          /\ pc' # "main_menu"
          /\ reply'.asked
          /\ reply'.answer = "y"
          /\ \/ ~Readable(disk[session_folder], contract_base \o ORIGINAL_SUFFIX)
             \/ ~Readable(disk[session_folder], contract_base \o UpstreamSuffix(pc)) )
            => /\ calls' = calls
               /\ disk' = disk
               /\ \E notice \in console' \ console :
                     notice[1] = "Original contract file not found" \/ notice[2] = "sc_file"
      ]_vars

----------------------------------------------------------------------------
(* Properties of the validator and of the gateway. *)

\* Some root token stands at the first character of p that is not whitespace.
BeginsWithRoot(p) ==
    \E k \in 1..Len(p) :
        /\ \A j \in 1..(k - 1) : p[j] \in Whitespace
        /\ \E root \in {FLOWCHART_TD, SEQUENCE_DIAGRAM} :
              /\ k + Len(root) - 1 <= Len(p)
              /\ \A j \in 1..Len(root) : p[k + j - 1] = root[j]

\* The sentinel occurs in p.
HoldsMarker(p) ==
    \E k \in 1..Len(p) :
        /\ k + Len(DEFAULT_MARKER) - 1 <= Len(p)
        /\ \A j \in 1..Len(DEFAULT_MARKER) : p[k + j - 1] = DEFAULT_MARKER[j]

\* C9: is_valid_mermaid(p) is false when p is empty, only whitespace, or holds
\* "Default Diagram", and it is true exactly when p, with the whitespace around
\* it removed, begins with "flowchart TD" or "sequenceDiagram" and does not
\* hold "Default Diagram".
C9_ValidatorPolicy ==
    outcome # None
        => /\ outcome.valid <=> (BeginsWithRoot(probe) /\ ~HoldsMarker(probe))
           /\ (probe = <<>> \/ (\A i \in DOMAIN probe : probe[i] \in Whitespace)
                 \/ HoldsMarker(probe)) => ~outcome.valid

\* A payload with whitespace before its root token was found valid.
C9_Witness ==
    /\ outcome # None
    /\ outcome.valid
    /\ probe # <<>>
    /\ probe[1] \in Whitespace

\* C10: whatever requests.post does (it raises, it answers with any status, it
\* answers 200 with a body of any shape), call_llm returns a str and raises
\* nothing, and it returns the empty str after a transport error or a status
\* other than 200.
C10_GatewayTotal ==
    outcome # None
        => /\ ~outcome.raised
           /\ outcome.value \in Seq(STRING)
           /\ GatewayFailed(probe) => outcome.value = <<>>

\* The gateway was given a 200 answer whose list of choices is empty.
C10_Witness ==
    /\ outcome # None
    /\ probe = Http(HTTP_OK, JDict([k \in {"choices"} |-> JList(<<>>)]))
    /\ outcome.value = <<>>

----------------------------------------------------------------------------
(* Properties of querying. *)

\* A step of show_contract_menu's choice 5.
Queried ==
    /\ pc = "contract_menu"
    /\ pc' = "contract_menu"
    /\ "answer" \in DOMAIN reply'
    /\ reply'.answer \in {"a", "b"}

\* The report a query is about.
TargetSuffix(choice) ==
    IF choice = "a" THEN FUNCTIONS_REPORT_SUFFIX ELSE JOURNEY_REPORT_SUFFIX

\* The sections of a query's prompt when the target report holds text and
\* each other piece is the file's text or the placeholder given for it.
QuerySections(files, base, target) ==
    << <<"Report Content", target>>,
       <<"Original Code",
         IF Readable(files, base \o ORIGINAL_SUFFIX)
         THEN TextOf(files, base \o ORIGINAL_SUFFIX) ELSE NO_ORIGINAL_CODE>>,
       <<"Journey Diagram",
         IF Readable(files, base \o JOURNEY_DIAGRAM_SUFFIX)
         THEN TextOf(files, base \o JOURNEY_DIAGRAM_SUFFIX) ELSE NO_JOURNEY_DIAGRAM>>,
       <<"Call Diagram",
         IF Readable(files, base \o CALL_DIAGRAM_SUFFIX)
         THEN TextOf(files, base \o CALL_DIAGRAM_SUFFIX) ELSE NO_CALL_DIAGRAM>> >>

\* C11, as claimed: for every combination of the four context pieces being
\* loadable or not, a query makes exactly one gateway call whose prompt holds
\* target report, raw source, journey diagram, call diagram and the question
\* in this order, some text standing in for each piece that failed to load.
C11_QueryNeverSkipped ==
    [][ Queried
            => LET files == disk[session_folder]
                   target == contract_base \o TargetSuffix(reply'.answer)
               IN  /\ Len(calls') = 1
                   /\ calls'[1].prompt.query = QuestionText
                   /\ \E stand_in \in {TextOf(files, target), NO_ORIGINAL_CODE,
                                       NO_JOURNEY_DIAGRAM, NO_CALL_DIAGRAM} :
                         /\ Readable(files, target) => stand_in = TextOf(files, target)
                         /\ calls'[1].prompt.sections
                                = QuerySections(files, contract_base, stand_in)
      ]_vars

\* C11, amended: when the target report loads, a query makes exactly one
\* gateway call, to the query model, whose prompt holds target report, raw
\* source, journey diagram, call diagram and the question in this order, with
\* the piece's own placeholder for each of the last three that failed to load;
\* when the target report does not load, the error is printed and no gateway
\* call is made.
C11_QueryAssembly ==
    [][ Queried
            => LET files == disk[session_folder]
                   target == contract_base \o TargetSuffix(reply'.answer)
               IN  IF Readable(files, target)
                   THEN /\ Len(calls') = 1
                        /\ calls'[1].generator = "query_report"
                        /\ calls'[1].model = QUERY_MODEL
                        /\ calls'[1].prompt.query = QuestionText
                        /\ calls'[1].prompt.sections
                               = QuerySections(files, contract_base, TextOf(files, target))
                   ELSE /\ calls' = <<>>
                        /\ console' = {<<"Error reading report", reply'.answer>>}
      ]_vars

\* A query was asked with the target report loaded and the other three pieces
\* replaced by their placeholders.
C11_Witness ==
    /\ pc = "contract_menu"
    /\ Len(calls) = 1
    /\ calls[1].generator = "query_report"
    /\ calls[1].prompt.sections[1][2] = ProseText
    /\ calls[1].prompt.sections[2][2] = NO_ORIGINAL_CODE
    /\ calls[1].prompt.sections[3][2] = NO_JOURNEY_DIAGRAM
    /\ calls[1].prompt.sections[4][2] = NO_CALL_DIAGRAM

----------------------------------------------------------------------------
(* Properties of a directory's run. *)

\* Every file name process_contract writes for a contract.
WrittenSuffixes ==
    ArtifactSuffixes \cup {ORIGINAL_SUFFIX, PRELIMINARY_REPORT_SUFFIX, ANALYSIS_REPORT_SUFFIX}

\* main has processed the whole directory and is in the menus of the session
\* it made.
DirectoryDone == pc \in {"session_menu", "contract_menu"} /\ output_folder # 0

\* C12: when main has gone through a directory, a contract whose file could
\* not be read or was read as empty has no file in the session and no row,
\* and every other contract of the directory has all its files and its row.
C12_UnreadableSibling ==
    DirectoryDone =>
        \A path \in SolFiles :
            LET data == read_contract_file(path)
                files == disk[output_folder]
            IN  IF data = <<>>
                THEN /\ \A suffix \in WrittenSuffixes :
                            base_name_of(path) \o suffix \notin DOMAIN files
                     /\ \A id \in DOMAIN db : db[id].filename # basename(path)
                ELSE /\ \A suffix \in WrittenSuffixes :
                            base_name_of(path) \o suffix \in DOMAIN files
                     /\ contract_id_of(path, data) \in DOMAIN db

\* The directory's run is over, the file that cannot be read was abandoned
\* with nothing written, and the other contract has its combined report and
\* its row.
C12_Witness ==
    /\ DirectoryDone
    /\ ~inputs[PathB].ok
    /\ contract_files = <<>>
    /\ base_name_of(PathA) \o ANALYSIS_REPORT_SUFFIX \in DOMAIN disk[output_folder]
    /\ base_name_of(PathB) \o ORIGINAL_SUFFIX \notin DOMAIN disk[output_folder]
    /\ contract_id_of(PathA, inputs[PathA].data) \in DOMAIN db

----------------------------------------------------------------------------
(* Properties of sessions and of the table. *)

\* main starts the analysis of a directory.
Invoked == pc = "main_menu" /\ runs' = runs + 1

\* C13, as claimed: every analysis of a directory writes into a session that
\* did not exist before it, also when two analyses start within the same
\* second of the clock.
C13_SessionsImmutable ==
    [][ Invoked => output_folder' \notin DOMAIN disk ]_vars

\* The row process_contract is about to write from its locals.
RowOfLocals ==
    [filename |-> basename(filepath), content |-> content,
     functions_report |-> functions_report, journey_report |-> journey_report,
     journey_diagram |-> journey_diagram, call_diagram |-> call_diagram,
     analysed_at |-> clock]

\* C14: the table never holds more rows than there are contracts, and the
\* end of a pipeline run leaves, under the contract's fingerprint, the row of
\* this run, whether or not the fingerprint had a row, every other row
\* being left as it was.
C14_UpsertByFingerprint ==
    /\ [](Cardinality(DOMAIN db) <= Cardinality(SolFiles))
    /\ [][ (pc = "combined_report" /\ pc' = "next_contract")
             => LET id == contract_id_of(filepath, content)
                IN  /\ DOMAIN db' = DOMAIN db \cup {id}
                    /\ db'[id] = RowOfLocals
                    /\ \A other \in DOMAIN db \ {id} : db'[other] = db[other]
         ]_vars

\* The contract was analysed twice, in two sessions, with different functions
\* reports, and the table's only row holds the second run's.
C14_Witness ==
    /\ DOMAIN disk = {1, 2}
    /\ pc = "session_menu"
    /\ session_folder = 2
    /\ Cardinality(DOMAIN db) = 1
    /\ \A folder \in {1, 2} : base_name_of(PathA) \o ANALYSIS_REPORT_SUFFIX \in DOMAIN disk[folder]
    /\ LET row == db[contract_id_of(PathA, SourceA)]
           name == base_name_of(PathA) \o FUNCTIONS_REPORT_SUFFIX
       IN  /\ row.functions_report = disk[2][name].data
           /\ row.functions_report # disk[1][name].data
           /\ row.analysed_at = 2

\* C15, as claimed: in the menu of the session main has just filled, the base
\* names recovered from the combined reports' file names are the base names
\* the pipeline wrote its files under.
C15_NamingBijective ==
    (pc = "session_menu" /\ output_folder # 0 /\ session_folder = output_folder)
        => ContractBases(session_folder)
               = {base_name_of(path) : path \in {p \in SolFiles : read_contract_file(p) # <<>>}}

----------------------------------------------------------------------------
(* Properties of the fingerprint. *)

\* C16: two contracts of the same content and different paths have different
\* fingerprints, and the same path with the same content has one fingerprint.
C16_FingerprintHoldsPath ==
    outcome # None =>
        /\ (probe.first[2] = probe.second[2] /\ probe.first[1] # probe.second[1])
               => outcome.first # outcome.second
        /\ probe.first = probe.second => outcome.first = outcome.second

\* Two contracts of the same content under different paths were given
\* different fingerprints.
C16_Witness ==
    /\ outcome # None
    /\ probe.first[2] = probe.second[2]
    /\ probe.first[1] # probe.second[1]
    /\ outcome.first # outcome.second

----------------------------------------------------------------------------
(* Properties of repair and of the pipeline's phases. *)

\* C17: a step of repair decides on the diagram's text as the session holds
\* it at that moment, and a regeneration's prompt holds the raw source as the
\* session holds it at that moment, whatever the pipeline run had read.
C17_RepairReadsPersisted ==
    [][ (InRepair /\ pc' # "main_menu")
            => LET files == disk[session_folder]
                   diagram == TextOf(files, contract_base \o RepairSuffix(pc))
               IN  /\ reply'.asked = ~is_valid_mermaid(strip(diagram))
                   /\ Len(calls') = Len(calls) + 1
                        => LastCall.prompt.context
                               = TextOf(files, contract_base \o ORIGINAL_SUFFIX)
      ]_vars

\* Repair regenerated a diagram from a saved source that was edited after
\* the pipeline run.
C17_Witness ==
    /\ InRepair \/ pc = "contract_menu"
    /\ calls # <<>>
    /\ calls[1].generator = "regenerate_journey_diagram_from_contract"
    /\ calls[1].prompt.context = EditedSource
    /\ \A path \in DOMAIN inputs : inputs[path].data # EditedSource

\* C18: whichever gateway calls of a run fail, the run goes on: each phase is
\* followed by the next one, a report whose call gave nothing is its sentinel
\* and is the context of the diagram call derived from it, and the last step
\* writes the combined report and the row.
C18_FailedPhaseContinues ==
    /\ [](pc \in Phases
            => /\ (Len(calls) >= 1 /\ calls[1].output = <<>>)
                    => functions_report = NO_FUNCTIONS_REPORT
               /\ (Len(calls) >= 2 /\ calls[2].output = <<>>)
                    => journey_report = NO_JOURNEY_REPORT
               /\ Len(calls) >= 3
                    => calls[3].prompt = journey_diagram_prompt(journey_report)
               /\ Len(calls) >= 4
                    => calls[4].prompt = call_diagram_prompt(functions_report))
    /\ [][ (pc \in Phases /\ pc' # "main_menu")
             => /\ PhaseIndex(pc') = PhaseIndex(pc) + 1
                /\ pc # "combined_report" => Len(calls') = Len(calls) + 1
                /\ pc = "combined_report"
                     => /\ base_name_of(filepath) \o ANALYSIS_REPORT_SUFFIX
                               \in DOMAIN disk'[output_folder]
                        /\ contract_id_of(filepath, content) \in DOMAIN db'
         ]_vars

\* A run is complete in which the functions report's call and the journey
\* diagram's call failed and the other two calls did not: the call diagram was
\* asked for with the sentinel as its context, and the row was written.
C18_Witness ==
    /\ finished # None
    /\ finished.completed
    /\ Len(calls) = 4
    /\ calls[1].failed
    /\ ~calls[2].failed
    /\ calls[3].failed
    /\ ~calls[4].failed
    /\ calls[4].prompt.context = NO_FUNCTIONS_REPORT
    /\ contract_id_of(finished.filepath, inputs[finished.filepath].data) \in DOMAIN db

\* The diagram file a phase of the pipeline writes.
DiagramSuffix(p) ==
    IF p = "journey_diagram" THEN JOURNEY_DIAGRAM_SUFFIX ELSE CALL_DIAGRAM_SUFFIX

\* C19: the diagram a pipeline phase persists is the gateway's output when
\* that output passes the validator and the placeholder when it does not, so
\* every diagram file of a run in progress passes the validator or is the
\* placeholder.
C19_DiagramsValidOrPlaceholder ==
    /\ [][ (pc \in {"journey_diagram", "call_diagram"} /\ pc' # "main_menu")
             => LET saved == TextOf(disk'[output_folder],
                                    base_name_of(filepath) \o DiagramSuffix(pc))
                IN  /\ is_valid_mermaid(LastCall.output) => saved = LastCall.output
                    /\ ~is_valid_mermaid(LastCall.output) => saved = DEFAULT_JOURNEY_DIAGRAM
                    /\ DEFAULT_JOURNEY_DIAGRAM = DEFAULT_CALL_DIAGRAM
         ]_vars
    /\ [](\A p \in {"journey_diagram", "call_diagram"} :
            (pc \in Phases /\ PhaseIndex(pc) > PhaseIndex(p))
                => LET saved == TextOf(disk[output_folder],
                                       base_name_of(filepath) \o DiagramSuffix(p))
                   IN  is_valid_mermaid(saved) \/ saved = DEFAULT_JOURNEY_DIAGRAM)

\* A run has persisted the gateway's diagram as its journey diagram and the
\* placeholder as its call diagram, the gateway having answered that call
\* with text that is no diagram.
C19_Witness ==
    /\ pc = "combined_report"
    /\ Len(calls) = 4
    /\ is_valid_mermaid(calls[3].output)
    /\ TextOf(disk[output_folder], base_name_of(filepath) \o JOURNEY_DIAGRAM_SUFFIX)
           = calls[3].output
    /\ calls[4].output # <<>>
    /\ ~is_valid_mermaid(calls[4].output)
    /\ TextOf(disk[output_folder], base_name_of(filepath) \o CALL_DIAGRAM_SUFFIX)
           = DEFAULT_CALL_DIAGRAM

\* A contract's run is over: complete, with its combined report and its
\* row, or abandoned at the read step with nothing written.
RunOver(path) ==
    LET data == read_contract_file(path)
        files == disk[output_folder]
    IN  IF data = <<>>
        THEN \A suffix \in WrittenSuffixes : base_name_of(path) \o suffix \notin DOMAIN files
        ELSE /\ base_name_of(path) \o ANALYSIS_REPORT_SUFFIX \in DOMAIN files
             /\ contract_id_of(path, data) \in DOMAIN db

\* C20: once the analysis of a directory has started, it reaches the
\* session's menu with every contract's run over and none in a phase.
C20_RunsFinish ==
    InPipeline ~> (/\ pc = "session_menu"
                   /\ contract_files = <<>>
                   /\ \A path \in SolFiles : RunOver(path))

\* The analysis of a directory has finished: one contract complete, the
\* other abandoned, nothing left to process.
C20_Witness ==
    /\ pc = "session_menu"
    /\ session_folder = output_folder
    /\ contract_files = <<>>
    /\ \E path \in SolFiles : contract_id_of(path, inputs[path].data) \in DOMAIN db
    /\ \E path \in SolFiles : read_contract_file(path) = <<>>

\* C21: a step of repair leaves the table, every other file, and the set of
\* sessions as they were; it writes its diagram's file, and calls the gateway,
\* only when the persisted diagram is missing, unreadable or rejected by the
\* validator and the user has answered yes.
C21_RepairFrame ==
    [][ (InRepair /\ pc' # "main_menu")
            => LET name == contract_base \o RepairSuffix(pc)
                   persisted == TextOf(disk[session_folder], name)
               IN  /\ db' = db
                   /\ DOMAIN disk' = DOMAIN disk
                   /\ \A folder \in DOMAIN disk :
                         /\ DOMAIN disk'[folder] \subseteq DOMAIN disk[folder] \cup {name}
                         /\ \A n \in DOMAIN disk[folder] :
                               (folder # session_folder \/ n # name)
                                   => /\ n \in DOMAIN disk'[folder]
                                      /\ disk'[folder][n] = disk[folder][n]
                   /\ (disk' # disk \/ calls' # calls)
                         => /\ ~is_valid_mermaid(strip(persisted))
                            /\ reply'.asked
                            /\ reply'.answer = "y"
                   /\ is_valid_mermaid(strip(persisted)) => ~reply'.asked
      ]_vars

\* A repair has regenerated the journey diagram and, the user declining, left
\* an invalid call diagram as it was.
C21_Witness ==
    /\ pc = "contract_menu"
    /\ Generators(calls) = <<"regenerate_journey_diagram_from_contract">>
    /\ reply # None
    /\ reply.asked
    /\ reply.answer = "n"
    /\ ~is_valid_mermaid(strip(TextOf(disk[session_folder],
                                      contract_base \o CALL_DIAGRAM_SUFFIX)))

\* The diagram files of a session.
DiagramFiles(folder) ==
    {name \in DOMAIN disk[folder] :
        endswith(name, JOURNEY_DIAGRAM_SUFFIX) \/ endswith(name, CALL_DIAGRAM_SUFFIX)}

\* C22: a diagram file holding the placeholder is rejected by the validator,
\* and the step of repair that loads it asks whether to regenerate it.
C22_PlaceholderDetected ==
    /\ [](\A folder \in DOMAIN disk : \A name \in DiagramFiles(folder) :
            TextOf(disk[folder], name) \in {DEFAULT_JOURNEY_DIAGRAM, DEFAULT_CALL_DIAGRAM}
                => ~is_valid_mermaid(strip(TextOf(disk[folder], name))))
    /\ [][ (InRepair /\ pc' # "main_menu")
             => (TextOf(disk[session_folder], contract_base \o RepairSuffix(pc))
                     \in {DEFAULT_JOURNEY_DIAGRAM, DEFAULT_CALL_DIAGRAM}
                   => reply'.asked)
         ]_vars

\* Repair has loaded a journey diagram that the pipeline had replaced by the
\* placeholder and has asked about it; the user declined and it is still there.
C22_Witness ==
    /\ pc = "repair_call"
    /\ reply # None
    /\ reply.asked
    /\ reply.answer = "n"
    /\ TextOf(disk[session_folder], contract_base \o JOURNEY_DIAGRAM_SUFFIX)
           = DEFAULT_JOURNEY_DIAGRAM

\* The contracts of the directory that have a file of their own in a session.
PersistedContracts(folder) ==
    {base_name_of(path) : path \in
        {p \in SolFiles : \E suffix \in WrittenSuffixes :
            base_name_of(p) \o suffix \in DOMAIN disk[folder]}}

\* C23: at the menus, every contract with at least one file persisted in a
\* session is among the contracts the enumeration of that session lists,
\* a contract whose run stopped before the combined report included.
C23_PartialListed ==
    AtMenu => \A folder \in DOMAIN disk :
                  PersistedContracts(folder) \subseteq ContractBases(folder)

\* C24: two contracts whose (path, content) pairs differ are given
\* different fingerprints.
C24_NoAliasing ==
    outcome # None =>
        (probe.first # probe.second => outcome.first # outcome.second)

=============================================================================
